---- MODULE Spec2Model ----
(***************************************************************************)
(* setup_qiime2.py: provisioning of Miniforge and a QIIME 2 environment.  *)
(*                                                                         *)
(* Text is modelled at word granularity: a string is a sequence of words, *)
(* "x in s" is the contiguous-subsequence test.  A version string is      *)
(* modelled by the list of fields version.split(".") yields, each field a *)
(* sequence of characters.                                                 *)
(***************************************************************************)
EXTENDS Integers, Sequences, FiniteSets, TLC

(***************************************************************************)
(* Bounds of the model.                                                    *)
(***************************************************************************)
\* largest number of dot-separated fields of a requested version string
MaxFields == 2
\* largest number of consecutive executions of the script on one host
MaxRuns == 2

VARIABLES
    \* ---- host state, kept from one execution of the script to the next
    prefixDir,      \* PREFIX ("/content/miniforge3") exists
    conda,          \* `PREFIX/bin/conda info` prints "conda version"
    env,            \* contents of QIIME2_ENV_PATH
    usrQiime,       \* behaviour of a `qiime` found in the directories of the original PATH
    cwdFiles,       \* files of the working directory
    \* ---- process state of the running script
    argv,           \* sys.argv[1:]
    pc,             \* position in the script
    has_conda,
    has_qiime,
    version,
    config,         \* pyver_suffix, py_minor, QIIME_YAML_TEMPLATE, QIIME_YAML_FILENAME
    PATH,           \* os.environ["PATH"], a sequence of directories
    sysPath,        \* sys.path
    exitStatus,     \* NoExit while the process runs, then Exited(0) or Exited(1)
    \* ---- history of the running execution
    log,            \* commands and steps started, in order
    lastCall,       \* the last invocation of run_and_check: its inputs and its outcome
    probes,         \* how often each gate probe (lines 50, 59) and the refresh of line 167 ran
    hostAtStart,    \* the host state the process found when it started
    runs,           \* executions of the script so far
    prevExit,       \* exit status of the previous execution (NoExit for the first)
    verifiedExe,    \* which executable the final check ran: "none", "env", "path", "missing"
    importResult,   \* outcome of `import qiime2`: "none", "ok", "ImportError"
    \* ---- resolver harness
    resolved        \* results of the resolutions applied so far

hostVars == <<prefixDir, conda, env, usrQiime, cwdFiles>>
procVars == <<argv, pc, has_conda, has_qiime, version, config, PATH, sysPath, exitStatus>>
histVars == <<log, lastCall, probes, hostAtStart, runs, prevExit, verifiedExe, importResult>>
vars == <<prefixDir, conda, env, usrQiime, cwdFiles,
          argv, pc, has_conda, has_qiime, version, config, PATH, sysPath, exitStatus,
          log, lastCall, probes, hostAtStart, runs, prevExit, verifiedExe, importResult,
          resolved>>

\* the exit status of a process: none while it runs
NoExit == {}
Exited(status) == {status}

(***************************************************************************)
(* Text.                                                                   *)
(***************************************************************************)
\* success_check_text is None
None == {}
Some(text) == {text}

\* Python's `needle in hay` for strings
IsSubstring(needle, hay) ==
    \E i \in 0..(Len(hay) - Len(needle)) :
        \A k \in 1..Len(needle) : hay[i + k] = needle[k]

MARK_CONDA     == <<"conda", "version">>
MARK_RELEASE   == <<"QIIME 2", "release:">>
MARK_INSTALLER == <<"installation", "finished.">>
MARK_MAMBA     == <<"Verifying transaction:", "...working... done">>
MARK_PIP       == <<"Successfully installed", "empress">>

(***************************************************************************)
(* Version resolution (module level, lines 71-105).                       *)
(***************************************************************************)
Digits == {"0", "1", "2", "3", "4", "5", "6", "7", "8", "9"}

DigitValue(c) ==
    CASE c = "0" -> 0 [] c = "1" -> 1 [] c = "2" -> 2 [] c = "3" -> 3 [] c = "4" -> 4
      [] c = "5" -> 5 [] c = "6" -> 6 [] c = "7" -> 7 [] c = "8" -> 8 [] c = "9" -> 9

IsSign(c) == c \in {"+", "-"}

\* the digits of a field, its optional sign removed
Magnitude(field) ==
    IF Len(field) > 0 /\ IsSign(field[1]) THEN Tail(field) ELSE field

\* int(v) raises ValueError unless v is an optionally signed run of digits
IntParses(field) ==
    /\ Len(Magnitude(field)) > 0
    /\ \A i \in 1..Len(Magnitude(field)) : Magnitude(field)[i] \in Digits

RECURSIVE DecimalValue(_)
DecimalValue(digits) ==
    IF digits = <<>> THEN 0
    ELSE 10 * DecimalValue(SubSeq(digits, 1, Len(digits) - 1)) + DigitValue(digits[Len(digits)])

\* int(v)
ParseInt(field) ==
    IF Len(field) > 0 /\ field[1] = "-" THEN 0 - DecimalValue(Magnitude(field))
    ELSE DecimalValue(Magnitude(field))

\* the built-in default of line 74, "2024.2"
DefaultVersion == << <<"2", "0", "2", "4">>, <<"2">> >>

\* lines 71-74: the version is sys.argv[1] only when exactly one argument is given
RequestedVersion(args) == IF Len(args) = 1 THEN args[1] ELSE DefaultVersion

\* line 82 completes without ValueError
VersionParses(v) == \A i \in 1..Len(v) : IntParses(v[i])

\* line 82: tuple(int(v) for v in version.split("."))
q2_version_tuple(v) == [i \in 1..Len(v) |-> ParseInt(v[i])]

\* a comparison that looks at the first component only
TupleLess_first_component_only(a, b) ==
    a # <<>> /\ b # <<>> /\ Head(a) < Head(b)

\* Python's a < b on tuples of integers
RECURSIVE TupleLess(_, _)
TupleLess(a, b) ==
    IF b = <<>> THEN FALSE
    ELSE IF a = <<>> THEN TRUE
    ELSE IF Head(a) # Head(b) THEN Head(a) < Head(b)
    ELSE TupleLess(Tail(a), Tail(b))

CUTOFF_OLD == <<2021, 4>>
CUTOFF_NEW == <<2023, 9>>

\* lines 84-92
pyver_suffix(t) ==
    IF TupleLess(t, CUTOFF_OLD) THEN "36"
    ELSE IF TupleLess(t, CUTOFF_NEW) THEN "38"
    ELSE "38"

\* lines 78, 84-92
py_minor(t) ==
    IF TupleLess(t, CUTOFF_OLD) THEN "6"
    ELSE IF TupleLess(t, CUTOFF_NEW) THEN "8"
    ELSE "8"

\* lines 95-101: which of the two URL templates is used
QIIME_YAML_TEMPLATE(t) ==
    IF TupleLess(t, CUTOFF_NEW) THEN "distro/core/qiime2-{version}-py{python_suffix}"
    ELSE "distro/amplicon/qiime2-amplicon-{version}-py{python_suffix}"

\* line 104: the template with the version string and the suffix filled in
QIIME_YAML_URL(v) ==
    [template |-> QIIME_YAML_TEMPLATE(q2_version_tuple(v)),
     version  |-> v,
     suffix   |-> pyver_suffix(q2_version_tuple(v))]

\* line 105: os.path.basename of the URL; the directory part of the template is dropped
QIIME_YAML_FILENAME(v) ==
    [name    |-> IF QIIME_YAML_URL(v).template = "distro/core/qiime2-{version}-py{python_suffix}"
                 THEN "qiime2-" ELSE "qiime2-amplicon-",
     version |-> QIIME_YAML_URL(v).version,
     suffix  |-> QIIME_YAML_URL(v).suffix]

\* no configuration: line 82 raised ValueError, or the script has not got there yet
NoConfig ==
    [ok |-> FALSE, pyver_suffix |-> "", py_major |-> "", py_minor |-> "",
     template |-> "",
     url |-> [template |-> "", version |-> <<>>, suffix |-> ""],
     filename |-> [name |-> "", version |-> <<>>, suffix |-> ""]]

\* lines 71-105 for the command-line arguments args
Resolve(args) ==
    IF VersionParses(RequestedVersion(args))
    THEN [ok |-> TRUE,
          pyver_suffix |-> pyver_suffix(q2_version_tuple(RequestedVersion(args))),
          py_major |-> "3",
          py_minor |-> py_minor(q2_version_tuple(RequestedVersion(args))),
          template |-> QIIME_YAML_TEMPLATE(q2_version_tuple(RequestedVersion(args))),
          url |-> QIIME_YAML_URL(RequestedVersion(args)),
          filename |-> QIIME_YAML_FILENAME(RequestedVersion(args))]
    ELSE NoConfig

(***************************************************************************)
(* The host.                                                               *)
(***************************************************************************)
\* line 67: os.path.basename(MINICONDA_PATH_URL)
MINICONDA_SCRIPT_NAME == [name |-> "Miniforge3-Linux-x86_64.sh", version |-> <<>>, suffix |-> ""]

\* behaviour of a `qiime info` executable: exit code and what it prints
QiimeAbsent == [exists |-> FALSE, rc |-> 127, stdout |-> <<>>, stderr |-> <<>>]
QiimeOk     == [exists |-> TRUE, rc |-> 0, stdout |-> MARK_RELEASE, stderr |-> <<>>]
QiimeCrash  == [exists |-> TRUE, rc |-> 1, stdout |-> <<>>, stderr |-> <<"error">>]
QiimeSilent == [exists |-> TRUE, rc |-> 0, stdout |-> <<>>, stderr |-> <<>>]
QiimeMarkerThenFail == [exists |-> TRUE, rc |-> 1, stdout |-> MARK_RELEASE, stderr |-> <<"error">>]
QiimeBehaviours == {QiimeOk, QiimeCrash, QiimeSilent, QiimeMarkerThenFail}

\* QIIME2_ENV_PATH: the directory, bin/, bin/pip, lib/python3.<lib>/site-packages, bin/qiime
EnvAbsent == [dir |-> FALSE, bin |-> FALSE, pip |-> FALSE, lib |-> "", qiime |-> QiimeAbsent]
EnvDirOnly == [dir |-> TRUE, bin |-> FALSE, pip |-> FALSE, lib |-> "", qiime |-> QiimeAbsent]
LibMinors == {"", "8"}
ExistingEnvs ==
    {e \in [dir : {TRUE}, bin : BOOLEAN, pip : BOOLEAN, lib : LibMinors,
            qiime : QiimeBehaviours \cup {QiimeAbsent}] :
        ~e.bin => (~e.pip /\ e.qiime = QiimeAbsent)}
Envs == {EnvAbsent} \cup ExistingEnvs

Host == [prefixDir |-> prefixDir, conda |-> conda, env |-> env,
         usrQiime |-> usrQiime, cwdFiles |-> cwdFiles]

(***************************************************************************)
(* run_and_check (lines 122-142).                                          *)
(***************************************************************************)
\* run_and_check with the success text never looked at
run_and_check_exit_code_only(rc, stdout, stderr, success_check_text) ==
    IF rc = 0 THEN "True" ELSE "exit"

\* lines 129-142: "True" when the function returns True, "exit" when it calls sys.exit(1)
run_and_check(rc, stdout, stderr, success_check_text) ==
    IF rc = 0 /\ (success_check_text = None
                    \/ \A t \in success_check_text : IsSubstring(t, stdout \o stderr))
    THEN "True"
    ELSE "exit"

\* what an external command may print when its success phrase is `text`
Outputs(text) ==
    {[stdout |-> <<>>, stderr |-> <<>>],
     [stdout |-> <<>>, stderr |-> <<"error">>],
     [stdout |-> text, stderr |-> <<>>],
     [stdout |-> <<>>, stderr |-> text],
     [stdout |-> SubSeq(text, 1, 1), stderr |-> SubSeq(text, 2, Len(text))]}

ExitCodes == {0, 1}

NoCall == [cmd |-> "none", marker |-> None, rc |-> 0, stdout |-> <<>>, stderr |-> <<>>,
           result |-> "none"]

\* one invocation of run_and_check: the record of it and its place in the log
Invoke(cmd, marker, rc, out) ==
    /\ lastCall' = [cmd |-> cmd, marker |-> marker, rc |-> rc,
                    stdout |-> out.stdout, stderr |-> out.stderr,
                    result |-> run_and_check(rc, out.stdout, out.stderr, marker)]
    /\ log' = Append(log, cmd)

\* the caller going on whatever run_and_check did
Proceed_past_exit(result, next) ==
    pc' = next /\ exitStatus' = exitStatus

\* the caller after run_and_check: sys.exit(1) ends the process, any return value is ignored
Proceed(result, next) ==
    IF result = "exit"
    THEN pc' = "done" /\ exitStatus' = Exited(1)
    ELSE pc' = next /\ exitStatus' = exitStatus

(***************************************************************************)
(* Module-level code (lines 40-105).                                       *)
(***************************************************************************)
\* lines 45-61: create PREFIX, probe for Miniforge and for QIIME 2
Startup ==
    /\ pc = "boot"
    /\ prefixDir' = TRUE
    /\ has_conda' = conda
    /\ has_qiime' = (env.qiime.exists /\ IsSubstring(MARK_RELEASE, env.qiime.stdout))
    /\ probes' = [conda |-> probes.conda + 1,
                  qiime |-> probes.qiime + (IF env.qiime.exists THEN 1 ELSE 0),
                  refresh |-> probes.refresh]
    /\ pc' = "resolve"
    /\ UNCHANGED <<conda, env, usrQiime, cwdFiles, argv, version, config, PATH, sysPath,
                   exitStatus, log, lastCall, hostAtStart, runs, prevExit, verifiedExe,
                   importResult, resolved>>

\* lines 71-105: an uncaught ValueError of line 82 ends the process with status 1
ParseVersion ==
    /\ pc = "resolve"
    /\ version' = RequestedVersion(argv)
    /\ config' = Resolve(argv)
    /\ IF Resolve(argv).ok
       THEN pc' = "stage1" /\ exitStatus' = exitStatus
       ELSE pc' = "done" /\ exitStatus' = Exited(1)
    /\ UNCHANGED <<hostVars, argv, has_conda, has_qiime, PATH, sysPath, histVars, resolved>>

(***************************************************************************)
(* __main__ (lines 145-264).                                               *)
(***************************************************************************)
\* lines 150, 168-169
SkipRuntime ==
    /\ pc = "stage1"
    /\ has_conda
    /\ pc' = "stage2"
    /\ UNCHANGED <<hostVars, argv, has_conda, has_qiime, version, config, PATH, sysPath,
                   exitStatus, histVars, resolved>>

\* lines 150-157: wget of the installer; a failed wget -O may leave a file behind
DownloadInstaller ==
    /\ pc = "stage1"
    /\ ~has_conda
    /\ \E rc \in ExitCodes, out \in Outputs(<<"saved">>) :
        /\ Invoke("wget_installer", None, rc, out)
        /\ Proceed(lastCall'.result, "install")
        /\ IF rc = 0
           THEN cwdFiles' = cwdFiles \cup {MINICONDA_SCRIPT_NAME}
           ELSE cwdFiles' \in {cwdFiles, cwdFiles \cup {MINICONDA_SCRIPT_NAME}}
    /\ UNCHANGED <<prefixDir, conda, env, usrQiime, argv, has_conda, has_qiime, version,
                   config, PATH, sysPath, probes, hostAtStart, runs, prevExit, verifiedExe,
                   importResult, resolved>>

\* lines 159-167: run the installer; on success probe conda again
RunInstaller ==
    /\ pc = "install"
    /\ \E rc \in ExitCodes, out \in Outputs(MARK_INSTALLER) :
        /\ Invoke("bash_installer", Some(MARK_INSTALLER), rc, out)
        /\ Proceed(lastCall'.result, "stage2")
        /\ IF rc = 0 THEN conda' = TRUE ELSE conda' \in {conda, TRUE}
        /\ IF lastCall'.result = "exit"
           THEN has_conda' = has_conda /\ probes' = probes
           ELSE /\ has_conda' = conda'
                /\ probes' = [probes EXCEPT !.refresh = @ + 1]
    /\ UNCHANGED <<prefixDir, env, usrQiime, cwdFiles, argv, has_qiime, version, config,
                   PATH, sysPath, hostAtStart, runs, prevExit, verifiedExe, importResult,
                   resolved>>

\* lines 171, 224-225
SkipEnvironment ==
    /\ pc = "stage2"
    /\ has_qiime
    /\ pc' = "verify"
    /\ UNCHANGED <<hostVars, argv, has_conda, has_qiime, version, config, PATH, sysPath,
                   exitStatus, histVars, resolved>>

\* lines 171-178: wget of the environment specification
DownloadManifest ==
    /\ pc = "stage2"
    /\ ~has_qiime
    /\ \E rc \in ExitCodes, out \in Outputs(<<"saved">>) :
        /\ Invoke("wget_manifest", None, rc, out)
        /\ Proceed(lastCall'.result, "rm_env")
        /\ IF rc = 0
           THEN cwdFiles' = cwdFiles \cup {config.filename}
           ELSE cwdFiles' \in {cwdFiles, cwdFiles \cup {config.filename}}
    /\ UNCHANGED <<prefixDir, conda, env, usrQiime, argv, has_conda, has_qiime, version,
                   config, PATH, sysPath, probes, hostAtStart, runs, prevExit, verifiedExe,
                   importResult, resolved>>

\* the removal step leaving an existing environment directory where it is
RemoveEnvDir_left_in_place ==
    /\ pc = "rm_env"
    /\ pc' = "create_env"
    /\ UNCHANGED <<hostVars, argv, has_conda, has_qiime, version, config, PATH, sysPath,
                   exitStatus, histVars, resolved>>

\* lines 181-188: shutil.rmtree of an existing environment directory; an exception
\* of rmtree ends the process with status 1 and may leave part of the directory
RemoveEnvDir ==
    /\ pc = "rm_env"
    /\ \/ /\ ~env.dir
          /\ pc' = "create_env"
          /\ UNCHANGED <<env, exitStatus, log>>
       \/ /\ env.dir
          /\ env' = EnvAbsent
          /\ log' = Append(log, "rmtree_env")
          /\ pc' = "create_env"
          /\ UNCHANGED exitStatus
       \/ /\ env.dir
          /\ env' \in {env, EnvDirOnly}
          /\ log' = Append(log, "rmtree_env")
          /\ pc' = "done"
          /\ exitStatus' = Exited(1)
    /\ UNCHANGED <<prefixDir, conda, usrQiime, cwdFiles, argv, has_conda, has_qiime,
                   version, config, PATH, sysPath, lastCall, probes, hostAtStart, runs,
                   prevExit, verifiedExe, importResult, resolved>>

\* lines 192-202: mamba env create.  What the created prefix holds is checked by the
\* script itself afterwards (lines 206, 214, 229), so it is an input here.
CreateEnv ==
    /\ pc = "create_env"
    /\ \E rc \in ExitCodes, out \in Outputs(MARK_MAMBA) :
        /\ Invoke("mamba_create", Some(MARK_MAMBA), rc, out)
        /\ Proceed(lastCall'.result, "publish")
        /\ IF rc = 0
           THEN env' \in ExistingEnvs
           ELSE env' \in {env, EnvDirOnly}
    /\ UNCHANGED <<prefixDir, conda, usrQiime, cwdFiles, argv, has_conda, has_qiime,
                   version, config, PATH, sysPath, probes, hostAtStart, runs, prevExit,
                   verifiedExe, importResult, resolved>>

\* lines 204-210: prepend the environment's bin directory to PATH if it is a directory
PublishPath ==
    /\ pc = "publish"
    /\ PATH' = IF env.bin THEN <<"qiime2_env/bin">> \o PATH ELSE PATH
    /\ pc' = "plugin"
    /\ UNCHANGED <<hostVars, argv, has_conda, has_qiime, version, config, sysPath,
                   exitStatus, histVars, resolved>>

\* lines 212-223: pip install empress with the environment's pip, if there is one
InstallPlugin ==
    /\ pc = "plugin"
    /\ \/ /\ ~env.pip
          /\ pc' = "verify"
          /\ UNCHANGED <<exitStatus, log, lastCall>>
       \/ /\ env.pip
          /\ \E rc \in ExitCodes, out \in Outputs(MARK_PIP) :
                /\ Invoke("pip_empress", Some(MARK_PIP), rc, out)
                /\ Proceed(lastCall'.result, "verify")
    /\ UNCHANGED <<hostVars, argv, has_conda, has_qiime, version, config, PATH, sysPath,
                   probes, hostAtStart, runs, prevExit, verifiedExe, importResult, resolved>>

\* the executable a bare `qiime` resolves to along a search path
RECURSIVE Which(_)
Which(path) ==
    IF path = <<>> THEN QiimeAbsent
    ELSE IF Head(path) = "qiime2_env/bin" /\ env.qiime.exists THEN env.qiime
    ELSE IF Head(path) = "/usr/bin" /\ usrQiime.exists THEN usrQiime
    ELSE Which(Tail(path))

\* lines 228-230: the environment's qiime if it exists, else whatever PATH gives
FinalCheckExe == IF env.qiime.exists THEN "env" ELSE "path"

FinalCheckBehaviour == IF env.qiime.exists THEN env.qiime ELSE Which(PATH)

\* lines 227-238: `qiime info`; Popen of a missing executable raises, which ends the
\* process with status 1 as well
VerifyCli ==
    /\ pc = "verify"
    /\ IF FinalCheckBehaviour.exists
       THEN /\ Invoke("qiime_info", Some(MARK_RELEASE), FinalCheckBehaviour.rc,
                      [stdout |-> FinalCheckBehaviour.stdout,
                       stderr |-> FinalCheckBehaviour.stderr])
            /\ Proceed(lastCall'.result, "syspath")
            /\ verifiedExe' = FinalCheckExe
       ELSE /\ log' = Append(log, "qiime_info")
            /\ lastCall' = lastCall
            /\ pc' = "done"
            /\ exitStatus' = Exited(1)
            /\ verifiedExe' = "missing"
    /\ UNCHANGED <<hostVars, argv, has_conda, has_qiime, version, config, PATH, sysPath,
                   probes, hostAtStart, runs, prevExit, importResult, resolved>>

\* line 241
SitePackages(minor) == "qiime2_env/lib/python3." \o minor \o "/site-packages"

\* the sys.path update without the membership test of line 243
UpdateSysPath_without_membership_test ==
    /\ pc = "syspath"
    /\ sysPath' = IF env.lib = config.py_minor
                  THEN Append(sysPath, SitePackages(config.py_minor))
                  ELSE sysPath
    /\ pc' = "import"
    /\ UNCHANGED <<hostVars, argv, has_conda, has_qiime, version, config, PATH,
                   exitStatus, histVars, resolved>>

\* lines 240-251: append the environment's site-packages to sys.path
UpdateSysPath ==
    /\ pc = "syspath"
    /\ sysPath' = IF env.lib = config.py_minor
                     /\ \A i \in 1..Len(sysPath) : sysPath[i] # SitePackages(config.py_minor)
                  THEN Append(sysPath, SitePackages(config.py_minor))
                  ELSE sysPath
    /\ pc' = "import"
    /\ UNCHANGED <<hostVars, argv, has_conda, has_qiime, version, config, PATH,
                   exitStatus, histVars, resolved>>

\* the import check with the exit of line 260 enabled
ImportCheck_exit_on_failure ==
    /\ pc = "import"
    /\ importResult' \in {"ok", "ImportError"}
    /\ log' = Append(log, "import_qiime2")
    /\ IF importResult' = "ImportError"
       THEN pc' = "done" /\ exitStatus' = Exited(1)
       ELSE pc' = "cleanup" /\ exitStatus' = exitStatus
    /\ UNCHANGED <<hostVars, argv, has_conda, has_qiime, version, config, PATH, sysPath,
                   lastCall, probes, hostAtStart, runs, prevExit, verifiedExe, resolved>>

\* lines 253-260: import qiime2; an ImportError is logged and swallowed
ImportCheck ==
    /\ pc = "import"
    /\ importResult' \in {"ok", "ImportError"}
    /\ log' = Append(log, "import_qiime2")
    /\ pc' = "cleanup"
    /\ UNCHANGED <<hostVars, argv, has_conda, has_qiime, version, config, PATH, sysPath,
                   exitStatus, lastCall, probes, hostAtStart, runs, prevExit, verifiedExe,
                   resolved>>

\* cleanup that forgets the environment specification
cleanup_installer_only(files) == files \ {MINICONDA_SCRIPT_NAME}

\* lines 110-119
cleanup(files) == (files \ {MINICONDA_SCRIPT_NAME}) \ {config.filename}

\* lines 262-264: cleanup(), then the script ends and the process exits with status 0
Cleanup ==
    /\ pc = "cleanup"
    /\ cwdFiles' = cleanup(cwdFiles)
    /\ log' = Append(log, "cleanup")
    /\ pc' = "done"
    /\ exitStatus' = Exited(0)
    /\ UNCHANGED <<prefixDir, conda, env, usrQiime, argv, has_conda, has_qiime, version,
                   config, PATH, sysPath, lastCall, probes, hostAtStart, runs, prevExit,
                   verifiedExe, importResult, resolved>>

(***************************************************************************)
(* Executions of the script.                                               *)
(***************************************************************************)
V_OLD   == << <<"2", "0", "2", "1">>, <<"2">> >>
V_ABC   == << <<"a", "b", "c">> >>
V_EMPTY == << <<>> >>

\* command lines the script is started with
CommandLines == {<<>>, <<V_OLD>>, <<V_ABC>>, <<V_EMPTY>>}

InitialSysPaths == {<<"stdlib">>, <<SitePackages("8"), "stdlib">>}

\* a fresh process on the current host: nothing probed, resolved or run yet
Init ==
    /\ prefixDir \in BOOLEAN
    /\ conda \in BOOLEAN
    /\ conda => prefixDir
    /\ env \in Envs
    /\ usrQiime \in {QiimeAbsent, QiimeOk}
    /\ cwdFiles = {}
    /\ argv \in CommandLines
    /\ pc = "boot"
    /\ has_conda = FALSE
    /\ has_qiime = FALSE
    /\ version = <<>>
    /\ config = NoConfig
    /\ PATH = <<"/usr/bin">>
    /\ sysPath \in InitialSysPaths
    /\ exitStatus = NoExit
    /\ log = <<>>
    /\ lastCall = NoCall
    /\ probes = [conda |-> 0, qiime |-> 0, refresh |-> 0]
    /\ verifiedExe = "none"
    /\ importResult = "none"
    /\ hostAtStart = Host
    /\ runs = 1
    /\ prevExit = NoExit
    /\ resolved = <<>>

\* the script is run again, in a new process, on the host as the previous execution left it
StartRun ==
    /\ pc = "done"
    /\ runs < MaxRuns
    /\ argv' \in CommandLines
    /\ pc' = "boot"
    /\ has_conda' = FALSE
    /\ has_qiime' = FALSE
    /\ version' = <<>>
    /\ config' = NoConfig
    /\ PATH' = <<"/usr/bin">>
    /\ sysPath' \in InitialSysPaths
    /\ exitStatus' = NoExit
    /\ log' = <<>>
    /\ lastCall' = NoCall
    /\ probes' = [conda |-> 0, qiime |-> 0, refresh |-> 0]
    /\ verifiedExe' = "none"
    /\ importResult' = "none"
    /\ hostAtStart' = Host
    /\ runs' = runs + 1
    /\ prevExit' = exitStatus
    /\ UNCHANGED <<hostVars, resolved>>

Next ==
    \/ Startup
    \/ ParseVersion
    \/ SkipRuntime
    \/ DownloadInstaller
    \/ RunInstaller
    \/ SkipEnvironment
    \/ DownloadManifest
    \/ RemoveEnvDir
    \/ CreateEnv
    \/ PublishPath
    \/ InstallPlugin
    \/ VerifyCli
    \/ UpdateSysPath
    \/ ImportCheck
    \/ Cleanup
    \/ StartRun

Spec == Init /\ [][Next]_vars

(***************************************************************************)
(* Version resolution on its own: lines 71-105 applied to command lines    *)
(* drawn from a bounded set of version strings.                            *)
(***************************************************************************)
Fields ==
    {<<"2">>, <<"4">>, <<"0", "4">>, <<"9">>, <<"2", "0", "2", "1">>, <<"2", "0", "2", "3">>,
     <<"a", "b", "c">>, <<>>}

\* what version.split(".") can yield: at least one field
VersionStrings == UNION {[1..n -> Fields] : n \in 1..MaxFields}

ResolverInputs == {<<>>} \cup {<<v>> : v \in VersionStrings}

InitResolver ==
    /\ prefixDir = FALSE
    /\ conda = FALSE
    /\ env = EnvAbsent
    /\ usrQiime = QiimeAbsent
    /\ cwdFiles = {}
    /\ argv = <<>>
    /\ pc = "resolver"
    /\ has_conda = FALSE
    /\ has_qiime = FALSE
    /\ version = <<>>
    /\ config = NoConfig
    /\ PATH = <<"/usr/bin">>
    /\ sysPath = <<"stdlib">>
    /\ exitStatus = NoExit
    /\ log = <<>>
    /\ lastCall = NoCall
    /\ probes = [conda |-> 0, qiime |-> 0, refresh |-> 0]
    /\ verifiedExe = "none"
    /\ importResult = "none"
    /\ hostAtStart = Host
    /\ runs = 1
    /\ prevExit = NoExit
    /\ resolved = <<>>

\* lines 71-105 run for one command line; two resolutions are kept for comparison
ApplyResolve ==
    /\ pc = "resolver"
    /\ Len(resolved) < 2
    /\ \E args \in ResolverInputs :
        /\ argv' = args
        /\ version' = RequestedVersion(args)
        /\ config' = Resolve(args)
        /\ resolved' = Append(resolved,
              [version |-> RequestedVersion(args),
               tuple   |-> IF VersionParses(RequestedVersion(args))
                           THEN q2_version_tuple(RequestedVersion(args)) ELSE <<>>,
               config  |-> Resolve(args)])
    /\ UNCHANGED <<hostVars, pc, has_conda, has_qiime, PATH, sysPath, exitStatus, histVars>>

NextResolver == ApplyResolve

SpecResolver == InitResolver /\ [][NextResolver]_vars

(***************************************************************************)
(* Vocabulary of the properties, stated without the operators of the model.*)
(***************************************************************************)
\* text occurs in full as a contiguous run
Occurs(text, full) ==
    \E i \in 1..(Len(full) + 1), j \in 0..Len(full) : SubSeq(full, i, j) = text

\* the success condition of a command: exit code 0 and the marker, if any, in stdout+stderr
Succeeded(call) ==
    /\ call.rc = 0
    /\ call.marker = {} \/ \E t \in call.marker : Occurs(t, call.stdout \o call.stderr)

InLog(cmd) == \E i \in 1..Len(log) : log[i] = cmd
TimesInLog(cmd) == Cardinality({i \in 1..Len(log) : log[i] = cmd})
LastInLog(cmd) == Len(log) > 0 /\ log[Len(log)] = cmd

\* the last thing the process did was to invoke the command runner
JustCalled == lastCall.cmd # "none" /\ LastInLog(lastCall.cmd)

FatalStageCommands == {"wget_installer", "bash_installer", "wget_manifest", "mamba_create"}

\* shutil.rmtree raised: the removal was the last step and the directory is still there
RemovalFailed == LastInLog("rmtree_env") /\ env.dir

C2_StageFailureHalts ==
    /\ (lastCall.cmd \in FatalStageCommands /\ ~Succeeded(lastCall)) =>
          /\ LastInLog(lastCall.cmd)
          /\ TimesInLog(lastCall.cmd) = 1
          /\ ~InLog("cleanup")
          /\ pc = "done"
          /\ exitStatus = Exited(1)
    /\ (lastCall.cmd = "wget_installer" /\ ~Succeeded(lastCall)) =>
          ~InLog("bash_installer") /\ ~InLog("mamba_create")
    /\ RemovalFailed =>
          /\ TimesInLog("rmtree_env") = 1
          /\ ~InLog("mamba_create")
          /\ ~InLog("cleanup")
          /\ pc = "done"
          /\ exitStatus = Exited(1)

\* the installer download exited non-zero and the process has ended
C2_Witness ==
    /\ lastCall.cmd = "wget_installer"
    /\ lastCall.rc = 1
    /\ log = <<"wget_installer">>
    /\ pc = "done"
    /\ exitStatus = Exited(1)

(***************************************************************************)
(* C3 (as claimed): the plugin install is best-effort: when pip install    *)
(* empress exits non-zero or does not print its success phrase, the        *)
(* process is still running and goes on to the command-line verification.  *)
(***************************************************************************)
C3_PluginFailureNotFatal ==
    (lastCall.cmd = "pip_empress" /\ ~Succeeded(lastCall) /\ LastInLog("pip_empress")) =>
        /\ exitStatus = NoExit
        /\ pc = "verify"

(***************************************************************************)
(* C4 (as claimed): when the environment gate reports the release marker,  *)
(* no manifest download, removal or creation is performed, the             *)
(* environment's bin directory is nevertheless put first on PATH before    *)
(* the verification, and a failed verification ends the process with 1.    *)
(***************************************************************************)
C4_SkipStillPublishesPath ==
    (has_qiime /\ InLog("qiime_info")) =>
        /\ ~InLog("wget_manifest") /\ ~InLog("rmtree_env") /\ ~InLog("mamba_create")
        /\ Len(PATH) > 0 /\ PATH[1] = "qiime2_env/bin"
        /\ (lastCall.cmd = "qiime_info" /\ ~Succeeded(lastCall)) =>
              pc = "done" /\ exitStatus = Exited(1)

(***************************************************************************)
(* Vocabulary for the resolver: the lexicographic order on integer tuples, *)
(* and the range a version falls in.                                       *)
(***************************************************************************)
\* t < c: at the first position where they differ t is smaller, or t is a proper prefix
LexBelow(t, c) ==
    \E i \in 1..Len(c) :
        /\ \A k \in 1..(i - 1) : k <= Len(t) /\ t[k] = c[k]
        /\ i > Len(t) \/ t[i] < c[i]

RangeOf(t) ==
    IF LexBelow(t, <<2021, 4>>) THEN 1
    ELSE IF LexBelow(t, <<2023, 9>>) THEN 2
    ELSE 3

\* the range a resolved configuration belongs to, read off the configuration
RangeOfConfig(c) ==
    IF c.pyver_suffix = "36" THEN 1
    ELSE IF c.template = "distro/core/qiime2-{version}-py{python_suffix}" THEN 2
    ELSE 3

Parsed == {i \in 1..Len(resolved) : resolved[i].config.ok}

C6_RangesDistinct ==
    \A i, j \in Parsed :
        RangeOf(resolved[i].tuple) # RangeOf(resolved[j].tuple) =>
            /\ <<resolved[i].config.pyver_suffix, resolved[i].config.py_major,
                 resolved[i].config.py_minor>>
               # <<resolved[j].config.pyver_suffix, resolved[j].config.py_major,
                   resolved[j].config.py_minor>>
            /\ resolved[i].config.template # resolved[j].config.template

(***************************************************************************)
(* C7 (as claimed): when the requested version string does not parse into  *)
(* dot-separated integers, the process ends with a non-zero status having  *)
(* run no command and having changed nothing on the host (filesystem,      *)
(* search path).                                                           *)
(***************************************************************************)
\* a field is an integer when it is a non-empty run of digits, possibly signed
IsIntegerField(f) ==
    \E sign \in {<<>>, <<"+">>, <<"-">>} :
        /\ Len(f) > Len(sign)
        /\ SubSeq(f, 1, Len(sign)) = sign
        /\ \A k \in (Len(sign) + 1)..Len(f) :
              f[k] \in {"0", "1", "2", "3", "4", "5", "6", "7", "8", "9"}

Unparseable(v) == \E i \in 1..Len(v) : ~IsIntegerField(v[i])

C7_BadVersionTouchesNothing ==
    (pc \notin {"boot", "resolve", "resolver"} /\ Unparseable(version)) =>
        /\ pc = "done"
        /\ exitStatus = Exited(1)
        /\ log = <<>>
        /\ PATH = <<"/usr/bin">>
        /\ Host = hostAtStart

(***************************************************************************)
(* C8: the two verification checks differ in severity.  When the           *)
(* command-line check (qiime info, marker "QIIME 2 release:") fails, the   *)
(* process ends with status 1 and neither the import check nor Cleanup     *)
(* runs.  When it succeeds, the import check is advisory: whether the      *)
(* import succeeds or fails the run goes on to Cleanup and exits 0.        *)
(***************************************************************************)
CliCheckFailed ==
    /\ InLog("qiime_info")
    /\ \/ verifiedExe = "missing"
       \/ lastCall.cmd = "qiime_info" /\ ~Succeeded(lastCall)

CliCheckPassed == lastCall.cmd = "qiime_info" /\ Succeeded(lastCall)

IsInstallerFile(f) == f.name = "Miniforge3-Linux-x86_64.sh"
IsManifestOfRun(f) == f.name \in {"qiime2-", "qiime2-amplicon-"} /\ f.version = version

\* the command was started and something else was started after it
CompletedBeforeEnd(cmd) == \E i \in 1..(Len(log) - 1) : log[i] = cmd

C9_AfterRun ==
    /\ InLog("cleanup") <=> exitStatus = Exited(0)
    /\ exitStatus = Exited(0) =>
          \A f \in cwdFiles : ~IsInstallerFile(f) /\ ~IsManifestOfRun(f)
    /\ exitStatus = Exited(1) =>
          /\ hostAtStart.cwdFiles \subseteq cwdFiles
          /\ CompletedBeforeEnd("wget_installer") => \E f \in cwdFiles : IsInstallerFile(f)
          /\ CompletedBeforeEnd("wget_manifest") => \E f \in cwdFiles : IsManifestOfRun(f)

C9_CleanupStep ==
    (~InLog("cleanup") /\ InLog("cleanup")') =>
        /\ prefixDir' = prefixDir
        /\ conda' = conda
        /\ env' = env
        /\ usrQiime' = usrQiime
        /\ cwdFiles' \subseteq cwdFiles
        /\ \A f \in cwdFiles \ cwdFiles' : IsInstallerFile(f) \/ IsManifestOfRun(f)

C9_CleanupOnSuccessOnly == []C9_AfterRun /\ [][C9_CleanupStep]_vars

\* a run downloaded the installer and the manifest, exited 0, and left the environment
\* in place and neither file behind
C9_Witness ==
    /\ exitStatus = Exited(0)
    /\ InLog("wget_installer") /\ InLog("wget_manifest")
    /\ env.dir
    /\ cwdFiles = {}

(***************************************************************************)
(* C10 (as claimed): a stage whose gate reports its target present runs    *)
(* none of its commands; each gate is probed at most once per run; and a   *)
(* run started on the host left by a run that exited 0 performs no         *)
(* download, no installer execution, no environment removal and no         *)
(* environment creation.                                                   *)
(***************************************************************************)
Started == pc \notin {"boot", "resolver"}

C10_ResumeBySkip ==
    /\ (Started /\ hostAtStart.conda) =>
          ~InLog("wget_installer") /\ ~InLog("bash_installer")
    /\ (Started /\ has_qiime) =>
          ~InLog("wget_manifest") /\ ~InLog("rmtree_env") /\ ~InLog("mamba_create")
    /\ probes.conda <= 1 /\ probes.qiime <= 1
    /\ prevExit = Exited(0) =>
          /\ ~InLog("wget_installer") /\ ~InLog("bash_installer")
          /\ ~InLog("wget_manifest") /\ ~InLog("rmtree_env") /\ ~InLog("mamba_create")

(***************************************************************************)
(* C11: clean-slate ordering inside stage 2.  When the environment gate    *)
(* does not skip, the manifest download comes first, then the removal of a *)
(* pre-existing environment directory, then the environment creation.      *)
(* mamba env create is never started while an environment directory is     *)
(* present; a failed removal ends the process with status 1 before any     *)
(* creation; a failed manifest download leaves the environment directory   *)
(* as it was.                                                              *)
(***************************************************************************)
\* every occurrence of cmd in the log comes after an occurrence of earlier
Precedes(earlier, cmd) ==
    \A j \in 1..Len(log) : log[j] = cmd => \E i \in 1..(j - 1) : log[i] = earlier

ManifestDownloadFailed == lastCall.cmd = "wget_manifest" /\ ~Succeeded(lastCall)

C11_Order ==
    /\ (~has_qiime /\ pc \in {"rm_env", "create_env", "publish", "plugin"}) =>
          InLog("wget_manifest")
    /\ Precedes("wget_manifest", "rmtree_env")
    /\ Precedes("wget_manifest", "mamba_create")
    /\ \A i, j \in 1..Len(log) :
          (log[i] = "rmtree_env" /\ log[j] = "mamba_create") => i < j
    /\ (hostAtStart.env.dir /\ InLog("mamba_create")) => InLog("rmtree_env")
    /\ pc = "create_env" => ~env.dir
    /\ RemovalFailed => exitStatus = Exited(1) /\ pc = "done" /\ ~InLog("mamba_create")
    /\ ManifestDownloadFailed =>
          /\ env = hostAtStart.env
          /\ ~InLog("rmtree_env") /\ ~InLog("mamba_create")

\* the step that starts mamba env create is taken with no environment directory present
C11_CreateStep ==
    (~InLog("mamba_create") /\ InLog("mamba_create")') => ~env.dir

C11_CleanSlateOrdering == []C11_Order /\ [][C11_CreateStep]_vars

\* an environment directory that was there at the start has been removed and the
\* environment has been created anew, in that order after the manifest download
C11_Witness ==
    /\ hostAtStart.env.dir
    /\ log = <<"wget_manifest", "rmtree_env", "mamba_create">>
    /\ lastCall.cmd = "mamba_create" /\ Succeeded(lastCall)
    /\ env.dir

(***************************************************************************)
(* C12 (as claimed): the presence of the environment's pip is the only     *)
(* gate of the plugin install: every run that reaches the command-line     *)
(* verification with the environment's pip present has attempted pip       *)
(* install empress, the runs in which stage 2 was skipped included, and    *)
(* the install is attempted only when that pip is present.                 *)
(***************************************************************************)
C12_PluginGatedByPipOnly ==
    /\ (InLog("qiime_info") /\ env.pip) => InLog("pip_empress")
    /\ InLog("pip_empress") => env.pip

(***************************************************************************)
(* C13 (as claimed): the executable run by the command-line verification   *)
(* is the qiime inside the environment prefix, never a qiime found         *)
(* elsewhere on PATH; so a run that exits 0 has verified the environment's *)
(* own qiime and found the release marker in its output.                   *)
(***************************************************************************)
C13_VerifiesEnvExecutableOnly ==
    /\ InLog("qiime_info") => verifiedExe \in {"env", "missing"}
    /\ verifiedExe = "missing" => exitStatus = Exited(1)
    /\ exitStatus = Exited(0) =>
          /\ verifiedExe = "env"
          /\ env.qiime.exists
          /\ env.qiime.rc = 0 /\ Occurs(MARK_RELEASE, env.qiime.stdout \o env.qiime.stderr)

(***************************************************************************)
(* C14: the search paths are changed only behind existence checks.  Within *)
(* a run PATH changes only by getting the environment's bin directory put  *)
(* in front, and only if that directory exists; sys.path changes only by   *)
(* getting the environment's site-packages directory appended, and only if *)
(* that directory exists and is not listed yet, so it is never listed      *)
(* twice; no entry of either path is removed or moved.                     *)
(***************************************************************************)
Listed(entry, path) == \E i \in 1..Len(path) : path[i] = entry

\* a step of one run (StartRun begins a new process with a fresh PATH and sys.path)
SameRun == runs' = runs

C14_PathStep ==
    SameRun =>
        /\ PATH' # PATH =>
              /\ env.bin
              /\ PATH' = <<"qiime2_env/bin">> \o PATH
        /\ sysPath' # sysPath =>
              /\ env.lib = config.py_minor
              /\ ~Listed(SitePackages(config.py_minor), sysPath)
              /\ sysPath' = Append(sysPath, SitePackages(config.py_minor))

C14_ListedOnce ==
    \A i, j \in 1..Len(sysPath) : sysPath[i] = sysPath[j] => i = j

C14_GuardedPathMutations == []C14_ListedOnce /\ [][C14_PathStep]_vars

\* the bin directory was put in front of PATH, and the site-packages directory, which
\* exists and was listed in sys.path from the start, was not appended again
C14_Witness ==
    /\ pc = "import"
    /\ PATH = <<"qiime2_env/bin", "/usr/bin">>
    /\ env.lib = config.py_minor
    /\ sysPath = <<SitePackages(config.py_minor), "stdlib">>

====
